---- MODULE Spec2Model ----
(***************************************************************************)
(* Model of bioimageio.core.stat_calculators: the calculator planner       *)
(* (get_measure_calculators), the moment and percentile calculators and    *)
(* the StatsCalculator coordinator.                                        *)
(*                                                                         *)
(* Representation                                                          *)
(*   measure      [scope, kind, tensor_id, axes, n]; n = NoRank unless the  *)
(*                kind is "Percentile"                                      *)
(*   axes         "None" (reduce every axis) or "x" (the tuple ("x",))      *)
(*   tensor       dims ("x", "c"): a sequence over c of columns, a column   *)
(*                being the sequence of the integers along x               *)
(*   sample       a function tensor_id -> tensor (Sample.data)             *)
(*   number       an exact rational <<num, den>>, den > 0, in lowest terms  *)
(*   value        [v |-> sequence of numbers, one per output cell,         *)
(*                 root |-> 1 or 2]; root = 2 is the square root of v       *)
(*   dict         a function from keys to values; {} domain when empty     *)
(*   None         <<>> for an optional array, NoneDict for the cache        *)
(***************************************************************************)
EXTENDS Integers, Sequences, FiniteSets, TLC

VARIABLES
    \* ---- get_measure_calculators (planner run, specification SpecPlan) ----
    plan_pc,                    \* "split" (loop of line 477), "done" (returned)
    requested,                  \* the set of measures the loop has consumed
    required,                   \* the six required_* groups of lines 464-475
    planned,                    \* the returned (sample_calculators, dataset_calculators)
    \* ---- StatsCalculator (specification Spec) ----
    constructed,                \* __init__ has run
    measures,                   \* __init__'s measures argument
    initial_dataset_measures,   \* __init__'s snapshot argument (NoneDict if None)
    sample_count,               \* self.sample_count
    sample_calculators,         \* self.sample_calculators
    dataset_calculators,        \* self.dataset_calculators
    current_dataset_measures,   \* self._current_dataset_measures
    \* ---- the observable outcome of the calls made on the StatsCalculator ----
    last_op,                    \* the method called last
    ret,                        \* what the last call returned (NoneDict if nothing)
    err,                        \* the exception the last call raised, or "none"
    arg,                        \* the argument of the last call
    fed_count,                  \* how many samples were applied to every dataset calculator so far
    calc_finalize_calls,        \* calc.finalize() calls (line 415) made by the last call
    init_warnings,              \* the warnings __init__ emitted
    \* ---- one calculator used on its own (specification SpecCalc) ----
    acc,                        \* the calculator object (NoCalculator before its construction)
    acc_fed,                    \* the tensors its update calls received, in order
    acc_op,                     \* the method called last on it
    acc_arg,                    \* the tensor that call was given (NoTensor if none)
    acc_ret,                    \* what that call returned (EmptyDict if nothing)
    acc_warnings,               \* the warnings that call emitted
    \* ---- StatsCalculator._update statement by statement (specification SpecUpdate) ----
    upd_pc,                     \* "idle", "for_s" (line 446), "for_calc" (line 448), "returned", "raised"
    upd_s,                      \* the index in the stream of s, the sample of line 446
    upd_c,                      \* the index of calc, the calculator of line 448
    upd_calls,                  \* the calc.update(s) calls made so far, as <<upd_s, upd_c>>
    \* ---- the module's functions (specification SpecCompute) ----
    fn,                         \* the function called ("none" before the call)
    fn_measures,                \* its measures argument
    fn_dataset,                 \* its dataset argument (compute_sample_measures: its one sample)
    fn_result                   \* what it returned or raised, and the samples it consumed

plan_vars == <<plan_pc, requested, required, planned>>
stats_vars == <<constructed, measures, initial_dataset_measures, sample_count,
                sample_calculators, dataset_calculators, current_dataset_measures>>
call_vars == <<last_op, arg, ret, err, fed_count, calc_finalize_calls, init_warnings>>
acc_vars == <<acc, acc_fed, acc_op, acc_arg, acc_ret, acc_warnings>>
upd_vars == <<upd_pc, upd_s, upd_c, upd_calls>>
fn_vars == <<fn, fn_measures, fn_dataset, fn_result>>
vars == <<plan_vars, stats_vars, call_vars, acc_vars, upd_vars, fn_vars>>

----------------------------------------------------------------------------
(* Bounds *)

\* the planner run consumes at most this many distinct measures
MaxMeasures == 4
\* a StatsCalculator gets at most this many update / update_and_get_all calls,
\* and these apply at most this many samples in all
MaxSamples == 3
\* a calculator used on its own gets at most this many update calls
MaxBatches == 3

----------------------------------------------------------------------------
(* Measure descriptors (bioimageio.core.stat_measures) *)

NoRank == -1
Scopes == {"Sample", "Dataset"}
TensorIds == {"a", "b"}
AxesChoices == {"None", "x"}
\* the ranks of tests/test_stat_measures.py
Ranks == {0, 10, 50, 100}

Measure(scope, kind, tensor_id, axes, n) ==
    [scope |-> scope, kind |-> kind, tensor_id |-> tensor_id, axes |-> axes, n |-> n]

SampleMean(tensor_id, axes) == Measure("Sample", "Mean", tensor_id, axes, NoRank)
SampleVar(tensor_id, axes) == Measure("Sample", "Var", tensor_id, axes, NoRank)
SampleStd(tensor_id, axes) == Measure("Sample", "Std", tensor_id, axes, NoRank)
SamplePercentile(tensor_id, axes, n) == Measure("Sample", "Percentile", tensor_id, axes, n)
DatasetMean(tensor_id, axes) == Measure("Dataset", "Mean", tensor_id, axes, NoRank)
DatasetVar(tensor_id, axes) == Measure("Dataset", "Var", tensor_id, axes, NoRank)
DatasetStd(tensor_id, axes) == Measure("Dataset", "Std", tensor_id, axes, NoRank)
DatasetPercentile(tensor_id, axes, n) == Measure("Dataset", "Percentile", tensor_id, axes, n)

\* every measure over the given tensors
MeasuresOver(tids) ==
    { Measure(s, k, t, a, NoRank) :
        s \in Scopes, k \in {"Mean", "Var", "Std"}, t \in tids, a \in AxesChoices }
    \cup
    { Measure(s, "Percentile", t, a, n) :
        s \in Scopes, t \in tids, a \in AxesChoices, n \in Ranks }

\* the measures the planner run draws from
PlanMeasures == MeasuresOver({"a"})

----------------------------------------------------------------------------
(* Dicts *)

EmptyDict == <<>>
NoneDict == [some |-> FALSE, d |-> EmptyDict]
SomeDict(d) == [some |-> TRUE, d |-> d]

\* dict.update(other) / {**d, **other}: the entries of other win
DictUpdate(d, other) ==
    [k \in (DOMAIN d) \cup (DOMAIN other) |-> IF k \in DOMAIN other THEN other[k] ELSE d[k]]

\* d.setdefault(key, set()).add(n)
SetDefaultAdd(d, key, n) ==
    [k \in (DOMAIN d) \cup {key} |->
        IF k = key THEN (IF key \in DOMAIN d THEN d[key] ELSE {}) \cup {n} ELSE d[k]]

\* the elements of a set in its iteration order (fixed for a given set)
RECURSIVE SeqOfSet(_)
SeqOfSet(S) ==
    IF S = {} THEN <<>>
    ELSE LET x == CHOOSE y \in S : TRUE IN <<x>> \o SeqOfSet(S \ {x})

----------------------------------------------------------------------------
(* Calculator objects *)

NewCalculator(cls, tensor_id, axes, ns) ==
    [cls |-> cls, tensor_id |-> tensor_id, axes |-> axes, ns |-> ns,
     n |-> 0, mean |-> <<>>, m2 |-> <<>>, estimates |-> <<>>]

MeanCalculator(tensor_id, axes) == NewCalculator("MeanCalculator", tensor_id, axes, {})
MeanVarStdCalculator(tensor_id, axes) == NewCalculator("MeanVarStdCalculator", tensor_id, axes, {})
SamplePercentilesCalculator(tensor_id, axes, ns) ==
    NewCalculator("SamplePercentilesCalculator", tensor_id, axes, ns)
MeanPercentilesCalculator(tensor_id, axes, ns) ==
    NewCalculator("MeanPercentilesCalculator", tensor_id, axes, ns)
\* crick is not installed: the fallback binding of lines 338-341
DatasetPercentilesCalculator(tensor_id, axes, ns) == MeanPercentilesCalculator(tensor_id, axes, ns)

----------------------------------------------------------------------------
(* get_measure_calculators *)

EmptyRequired ==
    [sample_means |-> {}, dataset_means |-> {},
     sample_mean_var_std |-> {}, dataset_mean_var_std |-> {},
     sample_percentiles |-> EmptyDict, dataset_percentiles |-> EmptyDict]

\* one iteration of the loop of lines 477-507
SplitMeasure(r, rm) ==
    CASE rm.scope = "Sample" /\ rm.kind = "Mean" ->
            [r EXCEPT !.sample_means = @ \cup {rm}]
      [] rm.scope = "Dataset" /\ rm.kind = "Mean" ->
            [r EXCEPT !.dataset_means = @ \cup {rm}]
      [] rm.scope = "Sample" /\ rm.kind \in {"Var", "Std"} ->
            [r EXCEPT !.sample_mean_var_std = @ \cup
                { SampleMean(rm.tensor_id, rm.axes), SampleStd(rm.tensor_id, rm.axes),
                  SampleVar(rm.tensor_id, rm.axes) }]
      [] rm.scope = "Dataset" /\ rm.kind \in {"Var", "Std"} ->
            [r EXCEPT !.dataset_mean_var_std = @ \cup
                { DatasetMean(rm.tensor_id, rm.axes), DatasetStd(rm.tensor_id, rm.axes),
                  DatasetVar(rm.tensor_id, rm.axes) }]
      [] rm.scope = "Sample" /\ rm.kind = "Percentile" ->
            [r EXCEPT !.sample_percentiles = SetDefaultAdd(@, <<rm.tensor_id, rm.axes>>, rm.n)]
      [] rm.scope = "Dataset" /\ rm.kind = "Percentile" ->
            [r EXCEPT !.dataset_percentiles = SetDefaultAdd(@, <<rm.tensor_id, rm.axes>>, rm.n)]

\* one standalone mean calculator per required mean, the loop skipping every
\* mean that is computed together with var and std
MeanCalculatorsFor_noskip(means, mean_var_std) ==
    LET ms == SeqOfSet(means)
    IN  [i \in 1..Len(ms) |-> MeanCalculator(ms[i].tensor_id, ms[i].axes)]

\* lines 509-514 and 521-526
MeanCalculatorsFor(means, mean_var_std) ==
    LET ms == SeqOfSet({rm \in means : rm \notin mean_var_std})
    IN  [i \in 1..Len(ms) |-> MeanCalculator(ms[i].tensor_id, ms[i].axes)]

\* lines 516-519 and 528-531
MeanVarStdCalculatorsFor(mean_var_std) ==
    LET ms == SeqOfSet(mean_var_std)
    IN  [i \in 1..Len(ms) |-> MeanVarStdCalculator(ms[i].tensor_id, ms[i].axes)]

\* one calculator per requested rank instead of one per (tensor_id, axes)
SamplePercentilesCalculatorsFor_perrank(percentiles) ==
    LET ks == SeqOfSet({ kn \in (DOMAIN percentiles) \X Ranks : kn[2] \in percentiles[kn[1]] })
    IN  [i \in 1..Len(ks) |-> SamplePercentilesCalculator(ks[i][1][1], ks[i][1][2], {ks[i][2]})]

\* lines 533-536
SamplePercentilesCalculatorsFor(percentiles) ==
    LET ks == SeqOfSet(DOMAIN percentiles)
    IN  [i \in 1..Len(ks) |-> SamplePercentilesCalculator(ks[i][1], ks[i][2], percentiles[ks[i]])]

\* lines 538-541
DatasetPercentilesCalculatorsFor(percentiles) ==
    LET ks == SeqOfSet(DOMAIN percentiles)
    IN  [i \in 1..Len(ks) |-> DatasetPercentilesCalculator(ks[i][1], ks[i][2], percentiles[ks[i]])]

\* lines 509-543: the two lists built from the groups
BuildCalculators(r) ==
    [sample |-> MeanCalculatorsFor(r.sample_means, r.sample_mean_var_std)
                \o MeanVarStdCalculatorsFor(r.sample_mean_var_std)
                \o SamplePercentilesCalculatorsFor(r.sample_percentiles),
     dataset |-> MeanCalculatorsFor(r.dataset_means, r.dataset_mean_var_std)
                 \o MeanVarStdCalculatorsFor(r.dataset_mean_var_std)
                 \o DatasetPercentilesCalculatorsFor(r.dataset_percentiles)]

RECURSIVE SplitAll(_, _)
SplitAll(r, rms) ==
    IF rms = <<>> THEN r ELSE SplitAll(SplitMeasure(r, Head(rms)), Tail(rms))

\* the whole function, applied to a sequence of measures
get_measure_calculators(required_measures) ==
    BuildCalculators(SplitAll(EmptyRequired, required_measures))

NoPlan == [sample |-> <<>>, dataset |-> <<>>]

----------------------------------------------------------------------------
(* Exact arithmetic standing for float64 *)

Abs(i) == IF i < 0 THEN -i ELSE i

RECURSIVE GCD(_, _)
GCD(a, b) == IF b = 0 THEN a ELSE GCD(b, a % b)

\* num/den in lowest terms, den > 0
Rat(num, den) ==
    LET g == GCD(Abs(num), den) IN <<num \div g, den \div g>>

RAdd(p, q) == Rat(p[1] * q[2] + q[1] * p[2], p[2] * q[2])
RSub(p, q) == Rat(p[1] * q[2] - q[1] * p[2], p[2] * q[2])
RMul(p, q) == Rat(p[1] * q[1], p[2] * q[2])
\* p * k and p / k for an integer k, k > 0 in the division
RScale(k, p) == Rat(k * p[1], p[2])
RDivInt(p, k) == Rat(p[1], p[2] * k)

RECURSIVE RSum(_)
RSum(ps) == IF ps = <<>> THEN <<0, 1>> ELSE RAdd(Head(ps), RSum(Tail(ps)))

\* a measure value: plain cells, or their square root
Plain(cells) == [v |-> cells, root |-> 1]
Sqrt(cells) == [v |-> cells, root |-> 2]

----------------------------------------------------------------------------
(* Tensors (xarray.DataArray with dims ("x", "c")) *)

RECURSIVE Flatten(_)
Flatten(t) == IF t = <<>> THEN <<>> ELSE Head(t) \o Flatten(Tail(t))

\* np.prod(tensor.shape)
TensorSize(t) == Len(Flatten(t))

\* the elements collapsed into each output cell of a reduction over axes
ReductionGroups(t, axes) == IF axes = "None" THEN <<Flatten(t)>> ELSE t

\* tensor.mean(dim=axes)
TensorMean(t, axes) ==
    LET gs == ReductionGroups(t, axes)
    IN  [i \in 1..Len(gs) |->
            RDivInt(RSum([j \in 1..Len(gs[i]) |-> <<gs[i][j], 1>>]), Len(gs[i]))]

\* ((tensor - mean) ** 2).sum(dim=axes), also xr.dot(c, c, dims=axes)
SumSquaredDeviations(t, axes, mean) ==
    LET gs == ReductionGroups(t, axes)
    IN  [i \in 1..Len(gs) |->
            RSum([j \in 1..Len(gs[i]) |->
                    LET d == RSub(<<gs[i][j], 1>>, mean[i]) IN RMul(d, d)])]

\* int(np.prod(tensor.shape) / np.prod(reduced.shape)): the reduced voxel count
ReducedCount(t, reduced) == TensorSize(t) \div Len(reduced)

RECURSIVE Insert(_, _)
Insert(x, s) ==
    IF s = <<>> THEN <<x>>
    ELSE IF x <= Head(s) THEN <<x>> \o s
    ELSE <<Head(s)>> \o Insert(x, Tail(s))

RECURSIVE Sort(_)
Sort(s) == IF s = <<>> THEN <<>> ELSE Insert(Head(s), Sort(Tail(s)))

\* numpy's linear-interpolation quantile of one reduction group at q = n / 100
Quantile(g, n) ==
    LET s == Sort(g)
        h == (Len(s) - 1) * n
        lo == h \div 100
        fr == h % 100
    IN  IF fr = 0 THEN <<s[lo + 1], 1>>
        ELSE RAdd(<<s[lo + 1], 1>>, RMul(Rat(fr, 100), <<s[lo + 2] - s[lo + 1], 1>>))

\* tensor.quantile(qs, dim=axes): for every rank the cells of that quantile
TensorQuantile(t, axes, ns) ==
    LET gs == ReductionGroups(t, axes)
    IN  [n \in ns |-> [i \in 1..Len(gs) |-> Quantile(gs[i], n)]]

----------------------------------------------------------------------------
(* Samples *)

\* Sample.data; S2 holds no tensor "b"
S1 == [a |-> << <<1, 2>>, <<3, 4>> >>, b |-> << <<0>>, <<2>> >>]
S2 == [a |-> << <<5>>, <<1>> >>]
Samples == {S1, S2}
\* last_sample = None
NoSample == [none |-> TRUE]

\* the argument of update / update_and_get_all: a Sample or an iterable of them
OneSample(sample) == [kind |-> "Sample", items |-> <<sample>>]
Iterable(samples) == [kind |-> "Iterable", items |-> samples]
NoArg == [kind |-> "None", items |-> <<>>]

RECURSIVE SeqsUpTo(_, _)
SeqsUpTo(S, k) ==
    IF k = 0 THEN {<<>>}
    ELSE LET shorter == SeqsUpTo(S, k - 1)
         IN  shorter \cup { Append(q, x) : q \in shorter, x \in S }

UpdateArgs ==
    { OneSample(sample) : sample \in Samples }
    \cup { Iterable(samples) : samples \in SeqsUpTo(Samples, MaxSamples) }

\* the tensors one calculator is given: all ones of shapes (2,2), (3,3) and
\* (1,1), the values 1..4 and 5..8 along x, and the tensors "a" of S1 and S2
Ones(k) == [i \in 1..k |-> [j \in 1..k |-> 1]]
Batches ==
    { Ones(2), Ones(3), Ones(1), << <<1, 2, 3, 4>> >>, << <<5, 6, 7, 8>> >>, S1.a, S2.a }
NoTensor == <<>>
NoCalculator == [cls |-> "None"]

\* sample.data[tensor_id] raises KeyError
RaisesKeyError(c, sample) == c.tensor_id \notin DOMAIN sample

----------------------------------------------------------------------------
(* MeanCalculator *)

MeanCalculator_compute_impl(c, sample) == TensorMean(sample[c.tensor_id], c.axes)

MeanCalculator_compute(c, sample) ==
    SampleMean(c.tensor_id, c.axes) :> Plain(MeanCalculator_compute_impl(c, sample))

\* _update_impl weighting every batch as one element
MeanCalculator_update_impl_persample(c, tensor, tensor_mean) ==
    IF c.mean = <<>>
    THEN [c EXCEPT !.n = 1, !.mean = tensor_mean]
    ELSE [c EXCEPT !.n = c.n + 1,
                   !.mean = [i \in 1..Len(c.mean) |->
                        RDivInt(RAdd(RScale(c.n, c.mean[i]), tensor_mean[i]), c.n + 1)]]

\* _update_impl, lines 95-110
MeanCalculator_update_impl(c, tensor, tensor_mean) ==
    LET n_b == ReducedCount(tensor, tensor_mean)
    IN  IF c.mean = <<>>
        THEN [c EXCEPT !.n = n_b, !.mean = tensor_mean]
        ELSE LET n_a == c.n
                 mean_old == c.mean
             IN  [c EXCEPT !.n = n_a + n_b,
                           !.mean = [i \in 1..Len(mean_old) |->
                                RDivInt(RAdd(RScale(n_a, mean_old[i]), RScale(n_b, tensor_mean[i])),
                                        n_a + n_b)]]

MeanCalculator_update(c, sample) ==
    MeanCalculator_update_impl(c, sample[c.tensor_id], MeanCalculator_compute_impl(c, sample))

MeanCalculator_finalize(c) ==
    IF c.mean = <<>> THEN EmptyDict
    ELSE DatasetMean(c.tensor_id, c.axes) :> Plain(c.mean)

----------------------------------------------------------------------------
(* MeanVarStdCalculator *)

MeanVarStdCalculator_compute(c, sample) ==
    LET tensor == sample[c.tensor_id]
        mean == TensorMean(tensor, c.axes)
        n == ReducedCount(tensor, mean)
        dot == SumSquaredDeviations(tensor, c.axes, mean)
        var == [i \in 1..Len(dot) |-> RDivInt(dot[i], n)]
    IN  (SampleMean(c.tensor_id, c.axes) :> Plain(mean))
        @@ (SampleVar(c.tensor_id, c.axes) :> Plain(var))
        @@ (SampleStd(c.tensor_id, c.axes) :> Sqrt(var))

\* the combination without the term of the distance of the two means
MeanVarStdCalculator_combine_nocorrection(c, n_b, mean_b, m2_b) ==
    [c EXCEPT
        !.n = c.n + n_b,
        !.mean = [i \in 1..Len(c.mean) |->
            RDivInt(RAdd(RScale(c.n, c.mean[i]), RScale(n_b, mean_b[i])), c.n + n_b)],
        !.m2 = [i \in 1..Len(c.m2) |-> RAdd(c.m2[i], m2_b[i])]]

\* the combination subtracting the term of the distance of the two means
MeanVarStdCalculator_combine_minus(c, n_b, mean_b, m2_b) ==
    [c EXCEPT
        !.n = c.n + n_b,
        !.mean = [i \in 1..Len(c.mean) |->
            RDivInt(RAdd(RScale(c.n, c.mean[i]), RScale(n_b, mean_b[i])), c.n + n_b)],
        !.m2 = [i \in 1..Len(c.m2) |->
            RSub(RAdd(c.m2[i], m2_b[i]),
                 RDivInt(RScale(c.n * n_b,
                                RMul(RSub(mean_b[i], c.mean[i]), RSub(mean_b[i], c.mean[i]))),
                         c.n + n_b))]]

\* the combination averaging the two means without their counts
MeanVarStdCalculator_combine_unweighted(c, n_b, mean_b, m2_b) ==
    [c EXCEPT
        !.n = c.n + n_b,
        !.mean = [i \in 1..Len(c.mean) |-> RDivInt(RAdd(c.mean[i], mean_b[i]), 2)],
        !.m2 = [i \in 1..Len(c.m2) |->
            RAdd(RAdd(c.m2[i], m2_b[i]),
                 RDivInt(RScale(c.n * n_b,
                                RMul(RSub(mean_b[i], c.mean[i]), RSub(mean_b[i], c.mean[i]))),
                         c.n + n_b))]]

\* lines 164-173: the running (n, mean, m2) combined with a batch's
MeanVarStdCalculator_combine(c, n_b, mean_b, m2_b) ==
    LET n_a == c.n
        mean_a == c.mean
        m2_a == c.m2
        n == n_a + n_b
    IN  [c EXCEPT
            !.n = n,
            !.mean = [i \in 1..Len(mean_a) |->
                RDivInt(RAdd(RScale(n_a, mean_a[i]), RScale(n_b, mean_b[i])), n)],
            !.m2 = [i \in 1..Len(m2_a) |->
                LET d == RSub(mean_b[i], mean_a[i])
                IN  RAdd(RAdd(m2_a[i], m2_b[i]),
                         RDivInt(RScale(n_a * n_b, RMul(d, d)), n))]]

\* lines 159-173, given the batch's (n_b, mean_b, m2_b)
MeanVarStdCalculator_observe(c, n_b, mean_b, m2_b) ==
    IF c.mean = <<>>
    THEN [c EXCEPT !.n = n_b, !.mean = mean_b, !.m2 = m2_b]
    ELSE MeanVarStdCalculator_combine(c, n_b, mean_b, m2_b)

\* update, lines 151-173
MeanVarStdCalculator_update(c, sample) ==
    LET tensor == sample[c.tensor_id]
        mean_b == TensorMean(tensor, c.axes)
    IN  MeanVarStdCalculator_observe(c, ReducedCount(tensor, mean_b), mean_b,
                                     SumSquaredDeviations(tensor, c.axes, mean_b))

MeanVarStdCalculator_finalize(c) ==
    IF c.mean = <<>> THEN EmptyDict
    ELSE LET var == [i \in 1..Len(c.m2) |-> RDivInt(c.m2[i], c.n)]
         IN  (DatasetMean(c.tensor_id, c.axes) :> Plain(c.mean))
             @@ (DatasetVar(c.tensor_id, c.axes) :> Plain(var))
             @@ (DatasetStd(c.tensor_id, c.axes) :> Sqrt(var))

----------------------------------------------------------------------------
(* SamplePercentilesCalculator, MeanPercentilesCalculator *)

SamplePercentilesCalculator_compute(c, sample) ==
    LET ps == TensorQuantile(sample[c.tensor_id], c.axes, c.ns)
    IN  [m \in { SamplePercentile(c.tensor_id, c.axes, n) : n \in c.ns } |-> Plain(ps[m.n])]

MeanPercentilesCalculator_update(c, sample) ==
    LET tensor == sample[c.tensor_id]
        sample_estimates == TensorQuantile(tensor, c.axes, c.ns)
        n == TensorSize(tensor) \div Len(ReductionGroups(tensor, c.axes))
    IN  [c EXCEPT
            !.estimates =
                IF DOMAIN c.estimates = {} THEN sample_estimates
                ELSE [k \in c.ns |-> [i \in 1..Len(c.estimates[k]) |->
                        RDivInt(RAdd(RScale(c.n, c.estimates[k][i]),
                                     RScale(n, sample_estimates[k][i])), c.n + n)]],
            !.n = c.n + n]

MeanPercentilesCalculator_finalize(c) ==
    IF DOMAIN c.estimates = {} THEN EmptyDict
    ELSE [m \in { DatasetPercentile(c.tensor_id, c.axes, n) : n \in c.ns } |->
            Plain(c.estimates[m.n])]

\* finalize emitting no warning
MeanPercentilesCalculator_finalize_warnings_silent(c) == <<>>

\* lines 257-262: the warnings finalize emits
MeanPercentilesCalculator_finalize_warnings(c) ==
    IF DOMAIN c.estimates = {} THEN <<>>
    ELSE <<"Computed dataset percentiles naively by averaging percentiles of samples.">>

----------------------------------------------------------------------------
(* CrickPercentilesCalculator. A TDigest is the sequence of the values its *)
(* update calls received; _digest is None until initialized; _indices is   *)
(* the sequence of the items its iterator has yet to yield.                *)

\* __init__, lines 272-291
CrickPercentilesCalculator(tensor_id, axes, ns) ==
    [cls |-> "CrickPercentilesCalculator", tensor_id |-> tensor_id, axes |-> axes, ns |-> ns,
     initialized |-> FALSE, digest |-> <<>>, indices |-> <<>>]

\* lines 278-280: the warning __init__ emits
CrickPercentilesCalculator_init_warnings ==
    <<"Computing dataset percentiles with experimental crick library.">>

\* _initialize, lines 293-306: one digest and one index per output cell
CrickPercentilesCalculator__initialize(c, tensor) ==
    LET d == Len(ReductionGroups(tensor, c.axes))
    IN  [c EXCEPT !.initialized = TRUE,
                  !.digest = [i \in 1..d |-> <<>>],
                  !.indices = [i \in 1..d |-> i]]

\* the loop of lines 317-318: it consumes the iterator self._indices
CrickPercentilesCalculator_feed(c, tensor) ==
    [c EXCEPT
        !.digest = [i \in 1..Len(c.digest) |->
            IF i <= Len(c.indices)
            THEN c.digest[i] \o ReductionGroups(tensor, c.axes)[c.indices[i]]
            ELSE c.digest[i]],
        !.indices = <<>>]

\* update, lines 308-318
CrickPercentilesCalculator_update(c, sample) ==
    CrickPercentilesCalculator_feed(
        IF ~c.initialized
        THEN CrickPercentilesCalculator__initialize(c, sample[c.tensor_id])
        ELSE c,
        sample[c.tensor_id])

\* finalize, lines 320-335; a digest's quantile is the quantile of its values
CrickPercentilesCalculator_finalize(c) ==
    IF ~c.initialized THEN EmptyDict
    ELSE [m \in { DatasetPercentile(c.tensor_id, c.axes, n) : n \in c.ns } |->
            Plain([i \in 1..Len(c.digest) |-> Quantile(c.digest[i], m.n)])]

----------------------------------------------------------------------------
(* calc.compute / calc.update / calc.finalize by the calculator's class *)

calc_compute(c, sample) ==
    CASE c.cls = "MeanCalculator" -> MeanCalculator_compute(c, sample)
      [] c.cls = "MeanVarStdCalculator" -> MeanVarStdCalculator_compute(c, sample)
      [] c.cls = "SamplePercentilesCalculator" -> SamplePercentilesCalculator_compute(c, sample)

calc_update(c, sample) ==
    CASE c.cls = "MeanCalculator" -> MeanCalculator_update(c, sample)
      [] c.cls = "MeanVarStdCalculator" -> MeanVarStdCalculator_update(c, sample)
      [] c.cls = "MeanPercentilesCalculator" -> MeanPercentilesCalculator_update(c, sample)
      [] c.cls = "CrickPercentilesCalculator" -> CrickPercentilesCalculator_update(c, sample)

calc_finalize(c) ==
    CASE c.cls = "MeanCalculator" -> MeanCalculator_finalize(c)
      [] c.cls = "MeanVarStdCalculator" -> MeanVarStdCalculator_finalize(c)
      [] c.cls = "MeanPercentilesCalculator" -> MeanPercentilesCalculator_finalize(c)
      [] c.cls = "CrickPercentilesCalculator" -> CrickPercentilesCalculator_finalize(c)

\* the warnings calc.finalize() emits
calc_finalize_warnings(c) ==
    IF c.cls = "MeanPercentilesCalculator"
    THEN MeanPercentilesCalculator_finalize_warnings(c)
    ELSE <<>>

----------------------------------------------------------------------------
(* StatsCalculator: the methods as functions of the object's state         *)
(* self = [sample_count, sample_calculators, dataset_calculators,          *)
(*         current_dataset_measures]                                       *)
(* A call's outcome is [self, ret, err, fed, finalize_calls]: the state    *)
(* it leaves, what it returned, what it raised, the samples it applied to  *)
(* every dataset calculator and its number of calc.finalize() calls.       *)
(* A method's intermediate result is handed to the operator that models    *)
(* the rest of the method.                                                 *)

RECURSIVE MergeAll(_)
\* ret = {}; for d in ds: ret.update(d.items())
MergeAll(ds) ==
    IF ds = <<>> THEN EmptyDict
    ELSE DictUpdate(MergeAll(SubSeq(ds, 1, Len(ds) - 1)), ds[Len(ds)])

Outcome(self, r, e, f, k) ==
    [self |-> self, ret |-> r, err |-> e, fed |-> f, finalize_calls |-> k]

\* the snapshot dropped even when it holds every requested dataset measure
InitialCache_dropped(ms, initial) == NoneDict

\* the snapshot kept although it lacks a requested dataset measure
InitialCache_partial(ms, initial) ==
    IF ~initial.some THEN NoneDict ELSE SomeDict(initial.d)

\* lines 384-401: the cache __init__ starts with
InitialCache(ms, initial) ==
    IF ~initial.some THEN NoneDict
    ELSE IF { m \in { ms[i] : i \in 1..Len(ms) } :
                m.scope = "Dataset" /\ m \notin DOMAIN initial.d } # {}
    THEN NoneDict
    ELSE SomeDict(initial.d)

\* lines 384-401: the warnings __init__ emits
StatsCalculator_init_warnings(ms, initial) ==
    IF initial.some
       /\ { m \in { ms[i] : i \in 1..Len(ms) } :
                m.scope = "Dataset" /\ m \notin DOMAIN initial.d } # {}
    THEN <<"ignoring initial_dataset_measure">>
    ELSE <<>>

\* lines 380-383, given the planner's lists
NewStatsCalculator(calcs, cache) ==
    [sample_count |-> 0,
     sample_calculators |-> calcs.sample,
     dataset_calculators |-> calcs.dataset,
     current_dataset_measures |-> cache]

\* __init__, lines 372-401
StatsCalculator_init(ms, initial) ==
    NewStatsCalculator(get_measure_calculators(ms), InitialCache(ms, initial))

\* has_dataset_measures, lines 403-405
has_dataset_measures(self) == self.current_dataset_measures.some

\* lines 413-418, given the merged calc.finalize() results
CacheFinalized(self, values) ==
    Outcome([self EXCEPT !.current_dataset_measures = SomeDict(values)],
            SomeDict(values), "none", <<>>, Len(self.dataset_calculators))

\* finalize with the test of line 412 left out
StatsCalculator_finalize_uncached(self) ==
    CacheFinalized(self, MergeAll([i \in 1..Len(self.dataset_calculators) |->
                                        calc_finalize(self.dataset_calculators[i])]))

\* finalize, lines 410-418
StatsCalculator_finalize(self) ==
    IF ~self.current_dataset_measures.some
    THEN CacheFinalized(self, MergeAll([i \in 1..Len(self.dataset_calculators) |->
                                            calc_finalize(self.dataset_calculators[i])]))
    ELSE Outcome(self, self.current_dataset_measures, "none", <<>>, 0)

\* _compute, lines 434-440: [err, d]
StatsCalculator__compute(self, sample) ==
    IF \E i \in 1..Len(self.sample_calculators) :
            RaisesKeyError(self.sample_calculators[i], sample)
    THEN [err |-> "KeyError", d |-> EmptyDict]
    ELSE [err |-> "none",
          d |-> MergeAll([i \in 1..Len(self.sample_calculators) |->
                            calc_compute(self.sample_calculators[i], sample)])]

\* the loop of lines 448-449 for one sample; it stops at the first calculator that raises
UpdateEach(calcs, sample) ==
    [err |-> IF \E i \in 1..Len(calcs) : RaisesKeyError(calcs[i], sample)
             THEN "KeyError" ELSE "none",
     calcs |-> [i \in 1..Len(calcs) |->
                    IF \A j \in 1..i : ~RaisesKeyError(calcs[j], sample)
                    THEN calc_update(calcs[i], sample) ELSE calcs[i]]]

RECURSIVE UpdateLoop(_, _, _, _)
RECURSIVE UpdateLoopBody_first(_, _, _, _)
RECURSIVE UpdateLoopBody(_, _, _, _)

\* the loop of lines 446-449: [calcs, err, fed, last_sample]
UpdateLoop(calcs, samples, done, last_sample) ==
    IF samples = <<>>
    THEN [calcs |-> calcs, err |-> "none", fed |-> done, last_sample |-> last_sample]
    ELSE UpdateLoopBody(UpdateEach(calcs, Head(samples)), samples, done, last_sample)

\* the loop body keeping the first sample as last_sample
UpdateLoopBody_first(u, samples, done, last_sample) ==
    IF u.err # "none"
    THEN [calcs |-> u.calcs, err |-> u.err, fed |-> done, last_sample |-> Head(samples)]
    ELSE UpdateLoop(u.calcs, Tail(samples), Append(done, Head(samples)),
                    IF last_sample = NoSample THEN Head(samples) ELSE last_sample)

\* lines 447-449 for s = Head(samples), u the outcome of its inner loop
UpdateLoopBody(u, samples, done, last_sample) ==
    IF u.err # "none"
    THEN [calcs |-> u.calcs, err |-> u.err, fed |-> done, last_sample |-> Head(samples)]
    ELSE UpdateLoop(u.calcs, Tail(samples), Append(done, Head(samples)), Head(samples))

\* the end of _update without the assignment of line 451
UpdateResult_stale(self, loop) ==
    [self |-> [self EXCEPT !.sample_count = @ + 1, !.dataset_calculators = loop.calcs],
     err |-> loop.err, fed |-> loop.fed, last_sample |-> loop.last_sample]

\* lines 443, 451 and 452, given the outcome of the loop
UpdateResult(self, loop) ==
    [self |-> [self EXCEPT
                !.sample_count = @ + 1,
                !.dataset_calculators = loop.calcs,
                !.current_dataset_measures = IF loop.err = "none" THEN NoneDict ELSE @],
     err |-> loop.err, fed |-> loop.fed, last_sample |-> loop.last_sample]

\* _update leaving the dataset calculators alone while a cached result exists
StatsCalculator__update_shortcircuit(self, sample) ==
    IF self.current_dataset_measures.some
    THEN [self |-> [self EXCEPT !.sample_count = @ + 1],
          err |-> "none", fed |-> <<>>,
          last_sample |-> IF sample.items = <<>> THEN NoSample
                          ELSE sample.items[Len(sample.items)]]
    ELSE UpdateResult(self, UpdateLoop(self.dataset_calculators, sample.items, <<>>, NoSample))

\* _update, lines 442-452: [self, err, fed, last_sample]
StatsCalculator__update(self, sample) ==
    UpdateResult(self, UpdateLoop(self.dataset_calculators, sample.items, <<>>, NoSample))

\* line 408, given what _update did
Discard(u) == Outcome(u.self, NoneDict, u.err, u.fed, 0)

\* update, lines 407-408
StatsCalculator_update(self, sample) == Discard(StatsCalculator__update(self, sample))

\* {**c, **self.finalize()}
MergeFinalized(d, fin, f) ==
    Outcome(fin.self, SomeDict(DictUpdate(d, fin.ret.d)), "none", f, fin.finalize_calls)

\* {**self._compute(sample), **self.finalize()} given c, what _compute did
MergeComputed(self, c, f) ==
    IF c.err # "none" THEN Outcome(self, NoneDict, c.err, f, 0)
    ELSE MergeFinalized(c.d, StatsCalculator_finalize(self), f)

\* {**self._compute(sample), **self.finalize()}, lines 428 and 432
ComputeAndFinalize(self, sample, f) ==
    MergeComputed(self, StatsCalculator__compute(self, sample), f)

\* lines 425-428 without the test of line 425
GetAllAfterUpdate_unchecked(u) ==
    IF u.err # "none" THEN Outcome(u.self, NoneDict, u.err, u.fed, 0)
    ELSE ComputeAndFinalize(u.self, u.last_sample, u.fed)

\* lines 425-428, given what _update did
GetAllAfterUpdate(u) ==
    IF u.err # "none" THEN Outcome(u.self, NoneDict, u.err, u.fed, 0)
    ELSE IF u.last_sample = NoSample
    THEN Outcome(u.self, NoneDict, "ValueError", u.fed, 0)
    ELSE ComputeAndFinalize(u.self, u.last_sample, u.fed)

\* update_and_get_all, lines 420-428
StatsCalculator_update_and_get_all(self, sample) ==
    GetAllAfterUpdate(StatsCalculator__update(self, sample))

\* skip_update_and_get_all calling _update as update_and_get_all does
StatsCalculator_skip_update_and_get_all_updating(self, sample) ==
    GetAllAfterUpdate(StatsCalculator__update(self, OneSample(sample)))

\* skip_update_and_get_all, lines 430-432
StatsCalculator_skip_update_and_get_all(self, sample) ==
    ComputeAndFinalize(self, sample, <<>>)

----------------------------------------------------------------------------
(* compute_dataset_measures, compute_sample_measures, compute_measures.    *)
(* A function's result is [ret, err, consumed]: what it returned, what it  *)
(* raised and how many samples it took from its dataset.                   *)

Result(r, e, k) == [ret |-> r, err |-> e, consumed |-> k]
NoResult == Result(NoneDict, "none", 0)

\* lines 555-562, given the outcome of the loop of lines 555-557
DatasetMeasuresOf(loop) ==
    IF loop.err # "none" THEN Result(NoneDict, loop.err, Len(loop.fed) + 1)
    ELSE Result(SomeDict(MergeAll([i \in 1..Len(loop.calcs) |-> calc_finalize(loop.calcs[i])])),
                "none", Len(loop.fed))

\* compute_dataset_measures without the assertion of line 551
DatasetMeasuresFrom_unasserted(calcs, dataset) ==
    DatasetMeasuresOf(UpdateLoop(calcs.dataset, dataset, <<>>, NoSample))

\* lines 551-562, given the planner's lists
DatasetMeasuresFrom(calcs, dataset) ==
    IF calcs.sample # <<>> THEN Result(NoneDict, "AssertionError", 0)
    ELSE DatasetMeasuresOf(UpdateLoop(calcs.dataset, dataset, <<>>, NoSample))

\* compute_dataset_measures, lines 546-562
compute_dataset_measures(ms, dataset) ==
    DatasetMeasuresFrom(get_measure_calculators(ms), dataset)

\* lines 570-576, given the planner's lists
SampleMeasuresFrom(calcs, sample) ==
    IF calcs.dataset # <<>> THEN Result(NoneDict, "AssertionError", 0)
    ELSE IF \E i \in 1..Len(calcs.sample) : RaisesKeyError(calcs.sample[i], sample)
    THEN Result(NoneDict, "KeyError", 0)
    ELSE Result(SomeDict(MergeAll([i \in 1..Len(calcs.sample) |->
                                        calc_compute(calcs.sample[i], sample)])),
                "none", 0)

\* compute_sample_measures, lines 565-576
compute_sample_measures(ms, sample) ==
    SampleMeasuresFrom(get_measure_calculators(ms), sample)

\* lines 593-599, given the dataset measures and the last sample
WithSampleMeasures(calcs, fin, sample, k) ==
    IF \E i \in 1..Len(calcs) : RaisesKeyError(calcs[i], sample)
    THEN Result(NoneDict, "KeyError", k)
    ELSE Result(SomeDict(DictUpdate(fin, MergeAll([i \in 1..Len(calcs) |->
                                                    calc_compute(calcs[i], sample)]))),
                "none", k)

\* compute_measures computing the sample measures of the first sample
AllMeasuresOf_first(calcs, loop) ==
    IF loop.err # "none" THEN Result(NoneDict, loop.err, Len(loop.fed) + 1)
    ELSE IF loop.last_sample = NoSample THEN Result(NoneDict, "ValueError", 0)
    ELSE WithSampleMeasures(calcs,
            MergeAll([i \in 1..Len(loop.calcs) |-> calc_finalize(loop.calcs[i])]),
            loop.fed[1], Len(loop.fed))

\* lines 587-599, given the sample calculators and the outcome of the loop
\* of lines 587-589
AllMeasuresOf(calcs, loop) ==
    IF loop.err # "none" THEN Result(NoneDict, loop.err, Len(loop.fed) + 1)
    ELSE IF loop.last_sample = NoSample THEN Result(NoneDict, "ValueError", 0)
    ELSE WithSampleMeasures(calcs,
            MergeAll([i \in 1..Len(loop.calcs) |-> calc_finalize(loop.calcs[i])]),
            loop.last_sample, Len(loop.fed))

\* lines 584-599, given the planner's lists
AllMeasuresFrom(calcs, dataset) ==
    AllMeasuresOf(calcs.sample, UpdateLoop(calcs.dataset, dataset, <<>>, NoSample))

\* compute_measures, lines 579-599
compute_measures(ms, dataset) ==
    AllMeasuresFrom(get_measure_calculators(ms), dataset)

----------------------------------------------------------------------------
(* The planner run: get_measure_calculators consuming its measures one by  *)
(* one, then building and returning the two lists                          *)

\* one iteration of the loop of line 477 (a measure may come again)
Split(rm) ==
    /\ plan_pc = "split"
    /\ rm \in requested \/ Cardinality(requested) < MaxMeasures
    /\ requested' = requested \cup {rm}
    /\ required' = SplitMeasure(required, rm)
    /\ UNCHANGED <<plan_pc, planned>>
    /\ UNCHANGED <<stats_vars, call_vars, acc_vars, upd_vars, fn_vars>>

\* lines 509-543
Build ==
    /\ plan_pc = "split"
    /\ plan_pc' = "done"
    /\ planned' = BuildCalculators(required)
    /\ UNCHANGED <<requested, required>>
    /\ UNCHANGED <<stats_vars, call_vars, acc_vars, upd_vars, fn_vars>>

PlanNext == (\E rm \in PlanMeasures : Split(rm)) \/ Build

----------------------------------------------------------------------------
(* The StatsCalculator and its caller *)

\* the measures a StatsCalculator is constructed with
MeasureConfigs ==
    { << DatasetMean("a", "x"), DatasetVar("a", "x"), SampleMean("a", "None") >>,
      << SampleStd("b", "None"), DatasetMean("a", "None"), DatasetPercentile("b", "None", 50) >> }

\* a precomputed value of a snapshot
SnapshotValue == Plain(<< <<7, 1>> >>)

\* the snapshots a StatsCalculator over ms may be given: None, the dict of
\* all its dataset measures, that dict and a measure that was not requested,
\* and every dict that lacks one of its dataset measures
Snapshots(ms) ==
    LET keys == { m \in { ms[i] : i \in 1..Len(ms) } : m.scope = "Dataset" }
        Snap(K) == SomeDict([m \in K |-> SnapshotValue])
    IN  {NoneDict, Snap(keys), Snap(keys \cup {DatasetStd("b", "x")})}
        \cup { Snap(keys \ {m}) : m \in keys }

Self ==
    [sample_count |-> sample_count,
     sample_calculators |-> sample_calculators,
     dataset_calculators |-> dataset_calculators,
     current_dataset_measures |-> current_dataset_measures]

\* the object's state becomes self
Becomes(self) ==
    /\ sample_count' = self.sample_count
    /\ sample_calculators' = self.sample_calculators
    /\ dataset_calculators' = self.dataset_calculators
    /\ current_dataset_measures' = self.current_dataset_measures

\* the call op(x) ends with outcome out
Call(op, x, out) ==
    /\ Becomes(out.self)
    /\ last_op' = op
    /\ arg' = x
    /\ ret' = out.ret
    /\ err' = out.err
    /\ fed_count' = fed_count + Len(out.fed)
    /\ calc_finalize_calls' = out.finalize_calls
    /\ UNCHANGED <<constructed, measures, initial_dataset_measures, init_warnings>>
    /\ UNCHANGED <<plan_vars, acc_vars, upd_vars, fn_vars>>

Construct(ms, initial) ==
    /\ ~constructed
    /\ constructed' = TRUE
    /\ measures' = ms
    /\ initial_dataset_measures' = initial
    /\ Becomes(StatsCalculator_init(ms, initial))
    /\ init_warnings' = StatsCalculator_init_warnings(ms, initial)
    /\ last_op' = "__init__"
    /\ UNCHANGED <<arg, ret, err, fed_count, calc_finalize_calls>>
    /\ UNCHANGED <<plan_vars, acc_vars, upd_vars, fn_vars>>

Update(x) ==
    /\ constructed
    /\ sample_count < MaxSamples
    /\ fed_count + Len(x.items) <= MaxSamples
    /\ Call("update", x, StatsCalculator_update(Self, x))

Finalize ==
    /\ constructed
    /\ Call("finalize", NoArg, StatsCalculator_finalize(Self))

UpdateAndGetAll(x) ==
    /\ constructed
    /\ sample_count < MaxSamples
    /\ fed_count + Len(x.items) <= MaxSamples
    /\ Call("update_and_get_all", x, StatsCalculator_update_and_get_all(Self, x))

SkipUpdateAndGetAll(sample) ==
    /\ constructed
    /\ Call("skip_update_and_get_all", OneSample(sample),
            StatsCalculator_skip_update_and_get_all(Self, sample))

Init ==
    /\ plan_pc = "split"
    /\ requested = {}
    /\ required = EmptyRequired
    /\ planned = NoPlan
    /\ constructed = FALSE
    /\ measures = <<>>
    /\ initial_dataset_measures = NoneDict
    /\ sample_count = 0
    /\ sample_calculators = <<>>
    /\ dataset_calculators = <<>>
    /\ current_dataset_measures = NoneDict
    /\ last_op = "none"
    /\ arg = NoArg
    /\ ret = NoneDict
    /\ err = "none"
    /\ fed_count = 0
    /\ calc_finalize_calls = 0
    /\ init_warnings = <<>>
    /\ acc = NoCalculator
    /\ acc_fed = <<>>
    /\ acc_op = "none"
    /\ acc_arg = NoTensor
    /\ acc_ret = EmptyDict
    /\ acc_warnings = <<>>
    /\ upd_pc = "idle"
    /\ upd_s = 0
    /\ upd_c = 0
    /\ upd_calls = <<>>
    /\ fn = "none"
    /\ fn_measures = <<>>
    /\ fn_dataset = <<>>
    /\ fn_result = NoResult

Next ==
    \/ \E ms \in MeasureConfigs : \E initial \in Snapshots(ms) : Construct(ms, initial)
    \/ \E x \in UpdateArgs : Update(x)
    \/ Finalize
    \/ \E x \in UpdateArgs : UpdateAndGetAll(x)
    \/ \E sample \in Samples : SkipUpdateAndGetAll(sample)

----------------------------------------------------------------------------
(* The StatsCalculator under the iteration orders of the planner's sets *)

\* the elements of a sequence at its odd positions, then those at its even ones
OddFirst(s) ==
    LET Odd == { i \in 1..Len(s) : i % 2 = 1 }
        Pick(I) == [k \in 1..Cardinality(I) |->
                        s[CHOOSE i \in I : Cardinality({ j \in I : j < i }) = k - 1]]
    IN  Pick(Odd) \o Pick((1..Len(s)) \ Odd)

IsMeanCalculator(c) == c.cls = "MeanCalculator"
IsMeanVarStdCalculator(c) == c.cls = "MeanVarStdCalculator"
IsPercentilesCalculator(c) == ~IsMeanCalculator(c) /\ ~IsMeanVarStdCalculator(c)

\* the loops of lines 516-519 and 528-531 iterate a set of measures, whose
\* order follows the hashes of its elements and differs between interpreter
\* runs (str hashes are salted): the orders modelled are that of SeqOfSet and
\* OddFirst of it
HashOrders == {"SeqOfSet", "OddFirst"}

\* a list of calculators as built under a hash order
InHashOrder(calcs, h) ==
    IF h = "SeqOfSet" THEN calcs
    ELSE SelectSeq(calcs, IsMeanCalculator)
         \o OddFirst(SelectSeq(calcs, IsMeanVarStdCalculator))
         \o SelectSeq(calcs, IsPercentilesCalculator)

\* __init__, lines 372-401, under a hash order
StatsCalculator_init_hashed(ms, initial, h) ==
    LET self == StatsCalculator_init(ms, initial)
    IN  [self EXCEPT !.sample_calculators = InHashOrder(@, h),
                     !.dataset_calculators = InHashOrder(@, h)]

\* the measures a StatsCalculator is constructed with: var and std of two
\* tensors, over the dataset and per sample
HashedMeasureConfigs ==
    { << DatasetVar("a", "None"), DatasetStd("b", "None") >>,
      << SampleVar("a", "None"), SampleStd("b", "None"), DatasetMean("a", "None") >> }

ConstructHashed(ms, initial, h) ==
    /\ ~constructed
    /\ constructed' = TRUE
    /\ measures' = ms
    /\ initial_dataset_measures' = initial
    /\ Becomes(StatsCalculator_init_hashed(ms, initial, h))
    /\ init_warnings' = StatsCalculator_init_warnings(ms, initial)
    /\ last_op' = "__init__"
    /\ UNCHANGED <<arg, ret, err, fed_count, calc_finalize_calls>>
    /\ UNCHANGED <<plan_vars, acc_vars, upd_vars, fn_vars>>

HashedNext ==
    \/ \E ms \in HashedMeasureConfigs : \E initial \in Snapshots(ms) :
            \E h \in HashOrders : ConstructHashed(ms, initial, h)
    \/ \E x \in UpdateArgs : Update(x)
    \/ Finalize
    \/ \E x \in UpdateArgs : UpdateAndGetAll(x)
    \/ \E sample \in Samples : SkipUpdateAndGetAll(sample)

----------------------------------------------------------------------------
(* One calculator and the calls made on it *)

\* the calculators constructed
Calculators ==
    UNION { { MeanCalculator("a", ax), MeanVarStdCalculator("a", ax),
              MeanPercentilesCalculator("a", ax, {10, 50}),
              CrickPercentilesCalculator("a", ax, {50}) } : ax \in AxesChoices }

\* the sample whose tensor "a" is t
SampleOf(t) == [a |-> t]

\* t has the output cells of the tensors the calculator has seen
Compatible(c, t) ==
    IF c.axes = "None" \/ acc_fed = <<>> THEN TRUE ELSE Len(t) = Len(acc_fed[1])

\* the call op(t) on the calculator ends
CalcCall(op, t, c, r, w) ==
    /\ acc' = c
    /\ acc_op' = op
    /\ acc_arg' = t
    /\ acc_ret' = r
    /\ acc_warnings' = w
    /\ UNCHANGED <<plan_vars, stats_vars, call_vars, upd_vars, fn_vars>>

ConstructCalculator(c) ==
    /\ acc = NoCalculator
    /\ CalcCall("__init__", NoTensor, c, EmptyDict,
                IF c.cls = "CrickPercentilesCalculator"
                THEN CrickPercentilesCalculator_init_warnings ELSE <<>>)
    /\ UNCHANGED acc_fed

CalcUpdate(t) ==
    /\ acc # NoCalculator
    /\ Len(acc_fed) < MaxBatches
    /\ Compatible(acc, t)
    /\ CalcCall("update", t, calc_update(acc, SampleOf(t)), EmptyDict, <<>>)
    /\ acc_fed' = Append(acc_fed, t)

CalcCompute(t) ==
    /\ acc # NoCalculator
    /\ acc.cls \in {"MeanCalculator", "MeanVarStdCalculator"}
    /\ CalcCall("compute", t, acc, calc_compute(acc, SampleOf(t)), <<>>)
    /\ UNCHANGED acc_fed

CalcFinalize ==
    /\ acc # NoCalculator
    /\ CalcCall("finalize", NoTensor, acc, calc_finalize(acc), calc_finalize_warnings(acc))
    /\ UNCHANGED acc_fed

CalcNext ==
    \/ \E c \in Calculators : ConstructCalculator(c)
    \/ \E t \in Batches : CalcUpdate(t)
    \/ \E t \in Batches : CalcCompute(t)
    \/ CalcFinalize

----------------------------------------------------------------------------
(* StatsCalculator.update statement by statement: _update's loops of lines *)
(* 446-449 advance one calc.update(s) at a time; finalize() is called      *)
(* between update calls.                                                   *)

InUpdate == upd_pc \in {"for_s", "for_calc"}

\* what an _update step leaves alone besides the StatsCalculator's attributes
UpdateStepFrame ==
    UNCHANGED <<constructed, measures, initial_dataset_measures, sample_calculators,
                ret, calc_finalize_calls, init_warnings,
                plan_vars, acc_vars, fn_vars>>

\* update(sample) is called: lines 443-445
UpdateEnter(x) ==
    /\ constructed
    /\ ~InUpdate
    /\ sample_count < MaxSamples
    /\ fed_count + Len(x.items) <= MaxSamples
    /\ sample_count' = sample_count + 1
    /\ last_op' = "update"
    /\ arg' = x
    /\ err' = "none"
    /\ upd_pc' = "for_s"
    /\ upd_s' = 0
    /\ upd_c' = 0
    /\ upd_calls' = <<>>
    /\ UNCHANGED <<dataset_calculators, current_dataset_measures, fed_count>>
    /\ UpdateStepFrame

\* line 446 taking the next sample while the cache is dropped
UpdateNextSample_invalidating ==
    /\ upd_pc = "for_s"
    /\ upd_s < Len(arg.items)
    /\ upd_s' = upd_s + 1
    /\ upd_c' = 1
    /\ upd_pc' = IF dataset_calculators = <<>> THEN "for_s" ELSE "for_calc"
    /\ current_dataset_measures' = NoneDict
    /\ UNCHANGED <<sample_count, dataset_calculators,
                   last_op, arg, err, fed_count, upd_calls>>
    /\ UpdateStepFrame

\* lines 446-447: the stream yields its next sample
UpdateNextSample ==
    /\ upd_pc = "for_s"
    /\ upd_s < Len(arg.items)
    /\ upd_s' = upd_s + 1
    /\ upd_c' = 1
    /\ upd_pc' = IF dataset_calculators = <<>> THEN "for_s" ELSE "for_calc"
    /\ UNCHANGED <<sample_count, dataset_calculators, current_dataset_measures,
                   last_op, arg, err, fed_count, upd_calls>>
    /\ UpdateStepFrame

\* lines 448-449: calc.update(s) for the next calculator; a KeyError ends the call
UpdateCalc ==
    /\ upd_pc = "for_calc"
    /\ IF RaisesKeyError(dataset_calculators[upd_c], arg.items[upd_s])
       THEN /\ upd_pc' = "raised"
            /\ err' = "KeyError"
            /\ UNCHANGED <<dataset_calculators, upd_calls, upd_c, fed_count>>
       ELSE /\ dataset_calculators' =
                    [dataset_calculators EXCEPT
                        ![upd_c] = calc_update(dataset_calculators[upd_c], arg.items[upd_s])]
            /\ upd_calls' = Append(upd_calls, <<upd_s, upd_c>>)
            /\ upd_c' = upd_c + 1
            /\ upd_pc' = IF upd_c = Len(dataset_calculators) THEN "for_s" ELSE "for_calc"
            /\ fed_count' = IF upd_c = Len(dataset_calculators)
                            THEN fed_count + 1 ELSE fed_count
            /\ err' = err
    /\ UNCHANGED <<sample_count, current_dataset_measures, last_op, arg, upd_s>>
    /\ UpdateStepFrame

\* lines 451-452 and 408: the stream is exhausted
UpdateReturn ==
    /\ upd_pc = "for_s"
    /\ upd_s = Len(arg.items)
    /\ current_dataset_measures' = NoneDict
    /\ upd_pc' = "returned"
    /\ UNCHANGED <<sample_count, dataset_calculators, last_op, arg, err, fed_count,
                   upd_s, upd_c, upd_calls>>
    /\ UpdateStepFrame

\* finalize() called between update calls
FinalizeBetweenUpdates ==
    /\ ~InUpdate
    /\ Finalize

UpdateStepNext ==
    \/ \E ms \in MeasureConfigs : \E initial \in Snapshots(ms) : Construct(ms, initial)
    \/ \E x \in UpdateArgs : UpdateEnter(x)
    \/ UpdateNextSample
    \/ UpdateCalc
    \/ UpdateReturn
    \/ FinalizeBetweenUpdates

----------------------------------------------------------------------------
(* One call of a module-level function *)

\* the measures the functions are called with: up to two of these
FnMeasurePool ==
    { SampleMean("a", "None"), SampleVar("a", "x"), SamplePercentile("b", "None", 50),
      DatasetMean("a", "None"), DatasetStd("a", "x"), DatasetPercentile("b", "None", 50) }
FnMeasures == SeqsUpTo(FnMeasurePool, 2)
Datasets == SeqsUpTo(Samples, MaxSamples)

\* the call f(ms, dataset) ends with result r
FnCall(f, ms, dataset, r) ==
    /\ fn = "none"
    /\ fn' = f
    /\ fn_measures' = ms
    /\ fn_dataset' = dataset
    /\ fn_result' = r
    /\ UNCHANGED <<plan_vars, stats_vars, call_vars, acc_vars, upd_vars>>

ComputeDatasetMeasures(ms, dataset) ==
    FnCall("compute_dataset_measures", ms, dataset, compute_dataset_measures(ms, dataset))

ComputeSampleMeasures(ms, sample) ==
    FnCall("compute_sample_measures", ms, <<sample>>, compute_sample_measures(ms, sample))

ComputeMeasures(ms, dataset) ==
    FnCall("compute_measures", ms, dataset, compute_measures(ms, dataset))

FnNext ==
    \/ \E ms \in FnMeasures : \E dataset \in Datasets : ComputeDatasetMeasures(ms, dataset)
    \/ \E ms \in FnMeasures : \E sample \in Samples : ComputeSampleMeasures(ms, sample)
    \/ \E ms \in FnMeasures : \E dataset \in Datasets : ComputeMeasures(ms, dataset)

----------------------------------------------------------------------------
(* Specifications *)

\* a StatsCalculator and the calls made on it
Spec == Init /\ [][Next]_vars

\* one calculator and the calls made on it
SpecCalc == Init /\ [][CalcNext]_vars

\* a StatsCalculator whose update calls run statement by statement
SpecUpdate == Init /\ [][UpdateStepNext]_vars

\* one call of compute_dataset_measures, compute_sample_measures or compute_measures
SpecCompute == Init /\ [][FnNext]_vars

\* the StatsCalculator, its planner iterating its sets in either hash order
SpecHashed == Init /\ [][HashedNext]_vars

\* one run of get_measure_calculators
SpecPlan == Init /\ [][PlanNext]_vars

----------------------------------------------------------------------------
(* Vocabulary of the properties *)

\* how many calculators of class cls over (tensor_id, axes) a list holds
CountCalculators(calcs, cls, tensor_id, axes) ==
    Cardinality({ i \in 1..Len(calcs) :
        calcs[i].cls = cls /\ calcs[i].tensor_id = tensor_id /\ calcs[i].axes = axes })

\* a measure of these kinds was requested for (scope, tensor_id, axes)
Requested(scope, kinds, tensor_id, axes) ==
    \E rm \in requested :
        rm.scope = scope /\ rm.kind \in kinds /\ rm.tensor_id = tensor_id /\ rm.axes = axes

\* the list get_measure_calculators returned for a scope
PlannedFor(scope) == IF scope = "Sample" THEN planned.sample ELSE planned.dataset

PercentilesClass(scope) ==
    IF scope = "Sample" THEN "SamplePercentilesCalculator" ELSE "MeanPercentilesCalculator"

\* the entries of a dict whose key is a measure of the given scope
ScopePart(d, scope) == [m \in { k \in DOMAIN d : k.scope = scope } |-> d[m]]

\* the merge of calc.finalize() over a list of calculators
FinalizeAll(calcs) == MergeAll([i \in 1..Len(calcs) |-> calc_finalize(calcs[i])])

\* the merge of calc.compute(sample) over a list of calculators
ComputeAll(calcs, sample) == MergeAll([i \in 1..Len(calcs) |-> calc_compute(calcs[i], sample)])

RECURSIVE ApplyAll(_, _)
\* every calculator of the list updated with every sample, in order
ApplyAll(calcs, samples) ==
    IF samples = <<>> THEN calcs
    ELSE ApplyAll([i \in 1..Len(calcs) |-> calc_update(calcs[i], Head(samples))], Tail(samples))

\* the snapshot given to __init__ holds every requested dataset measure
SnapshotComplete ==
    /\ initial_dataset_measures.some
    /\ \A i \in 1..Len(measures) :
            measures[i].scope = "Dataset" => measures[i] \in DOMAIN initial_dataset_measures.d

\* a snapshot was given to __init__ and lacks a requested dataset measure
SnapshotPartial == initial_dataset_measures.some /\ ~SnapshotComplete

\* no entry of the dict holds the value of the snapshots
NoSnapshotValue(d) == \A k \in DOMAIN d : d[k] # SnapshotValue

\* no calculator of the list has been updated
NoneUpdated(calcs) == \A i \in 1..Len(calcs) : calcs[i].n = 0

----------------------------------------------------------------------------
(* Properties of get_measure_calculators, under SpecPlan *)

\* C1: each scope's list holds exactly one MeanVarStdCalculator per
\* (tensor_id, axes) pair for which a Var or Std measure of that scope was
\* requested, and none for any other pair. The code appends one per member
\* of required_*_mean_var_std, that is three per pair: TLC refutes this.
C1_OneMeanVarStdPerPair ==
    plan_pc = "done" =>
        \A scope \in Scopes, t \in TensorIds, ax \in AxesChoices :
            CountCalculators(PlannedFor(scope), "MeanVarStdCalculator", t, ax)
                = IF Requested(scope, {"Var", "Std"}, t, ax) THEN 1 ELSE 0

\* C2: a standalone MeanCalculator exists for a scope and a (tensor_id, axes)
\* pair if and only if a Mean was requested for it and no Var or Std of the
\* same scope was, and then exactly one exists, whatever the order of the
\* requests and however often a request was repeated.
C2_StandaloneMeanIffNoVarStd ==
    plan_pc = "done" =>
        \A scope \in Scopes, t \in TensorIds, ax \in AxesChoices :
            CountCalculators(PlannedFor(scope), "MeanCalculator", t, ax)
                = IF /\ Requested(scope, {"Mean"}, t, ax)
                     /\ ~Requested(scope, {"Var", "Std"}, t, ax)
                  THEN 1 ELSE 0

\* a run that requested a sample mean together with a sample variance of one
\* pair, and a dataset mean alone
C2_Witness ==
    /\ plan_pc = "done"
    /\ {SampleMean("a", "None"), SampleVar("a", "None"), DatasetMean("a", "x")} \subseteq requested
    /\ ~Requested("Dataset", {"Var", "Std"}, "a", "x")
    /\ CountCalculators(planned.dataset, "MeanCalculator", "a", "x") = 1
    /\ CountCalculators(planned.sample, "MeanCalculator", "a", "None") = 0

\* C3: the percentiles of one scope that share (tensor_id, axes) are served by
\* exactly one percentile calculator, whose ranks are exactly the requested
\* ranks of that group; the ranks 0, 10, 50, 100 requested as sample
\* percentiles of one tensor and axes give one SamplePercentilesCalculator
\* and no dataset calculator.
C3_OnePercentilesCalculatorPerGroup ==
    plan_pc = "done" =>
        /\ \A scope \in Scopes, t \in TensorIds, ax \in AxesChoices :
            LET calcs == PlannedFor(scope)
                mine == { i \in 1..Len(calcs) :
                            /\ calcs[i].cls = PercentilesClass(scope)
                            /\ calcs[i].tensor_id = t /\ calcs[i].axes = ax }
                ranks == { rm.n : rm \in { r \in requested :
                            /\ r.scope = scope /\ r.kind = "Percentile"
                            /\ r.tensor_id = t /\ r.axes = ax } }
            IN  IF ranks = {} THEN mine = {}
                ELSE Cardinality(mine) = 1 /\ \A i \in mine : calcs[i].ns = ranks
        /\ \A ax \in AxesChoices :
            requested = { SamplePercentile("a", ax, n) : n \in {0, 10, 50, 100} } =>
                /\ Len(planned.sample) = 1
                /\ planned.sample[1].cls = "SamplePercentilesCalculator"
                /\ planned.dataset = <<>>

\* the run of tests/test_stat_measures.py: the four ranks of one tensor
C3_Witness ==
    /\ plan_pc = "done"
    /\ requested = { SamplePercentile("a", "x", n) : n \in {0, 10, 50, 100} }
    /\ Len(planned.sample) = 1
    /\ planned.sample[1].ns = {0, 10, 50, 100}

----------------------------------------------------------------------------
(* Properties of the StatsCalculator, under Spec *)

\* C4: every finalize() call leaves a cached mapping and returns it; a
\* finalize() call made while a cached mapping exists returns that mapping,
\* leaves it as it is and calls finalize on no dataset calculator. Hence a
\* finalize() call that follows a finalize() call with no update in between
\* returns the same mapping and calls finalize on no dataset calculator.
C4_FinalizeIdempotent ==
    [][last_op' = "finalize" =>
            /\ has_dataset_measures(Self')
            /\ ret' = current_dataset_measures'
            /\ has_dataset_measures(Self) =>
                /\ current_dataset_measures' = current_dataset_measures
                /\ calc_finalize_calls' = 0
            /\ last_op = "finalize" =>
                /\ ret' = ret
                /\ calc_finalize_calls' = 0]_vars

\* finalize() has returned a cache computed from updated dataset calculators
C4_Witness ==
    /\ last_op = "finalize"
    /\ calc_finalize_calls = 0
    /\ ~initial_dataset_measures.some
    /\ fed_count > 0
    /\ dataset_calculators # <<>>
    /\ ret.some /\ DOMAIN ret.d # {}
    /\ ret = current_dataset_measures

\* C5: after an update that returned normally no cached result is left
\* (has_dataset_measures is false) and the finalize() that follows calls
\* finalize on every dataset calculator and returns the merge of their
\* results; an update_and_get_all that returned normally holds the merge of
\* the results of the updated dataset calculators.
C5_UpdateInvalidatesCache ==
    [][/\ (last_op' = "update" /\ err' = "none") => ~has_dataset_measures(Self')
       /\ (last_op' = "update_and_get_all" /\ err' = "none") =>
            /\ calc_finalize_calls' = Len(dataset_calculators')
            /\ current_dataset_measures' = SomeDict(FinalizeAll(dataset_calculators'))
       /\ (last_op = "update" /\ err = "none" /\ last_op' = "finalize") =>
            /\ calc_finalize_calls' = Len(dataset_calculators)
            /\ ret' = SomeDict(FinalizeAll(dataset_calculators))]_vars

\* an update has returned on a StatsCalculator that started with a cache
C5_Witness ==
    /\ last_op = "update"
    /\ err = "none"
    /\ SnapshotComplete
    /\ sample_count = 1
    /\ fed_count > 0
    /\ ~has_dataset_measures(Self)

\* C6: sample_count is the number of samples applied to the dataset
\* calculators. The code adds one per _update call, whatever the number of
\* samples the call applies: TLC refutes this.
C6_SampleCountCountsSamples ==
    err = "none" => sample_count = fed_count

\* C7: update_and_get_all of a stream s1..sk that returns normally has applied
\* every sample s1..sk to every dataset calculator, in order; the dataset part
\* of what it returns is the merge of finalize() of the calculators so
\* updated, and the sample part is the sample calculators' compute of sk.
C7_UpdateAndGetAllUsesLastSample ==
    [][(last_op' = "update_and_get_all" /\ err' = "none") =>
            /\ arg'.items # <<>>
            /\ dataset_calculators' = ApplyAll(dataset_calculators, arg'.items)
            /\ fed_count' = fed_count + Len(arg'.items)
            /\ ScopePart(ret'.d, "Dataset") = FinalizeAll(dataset_calculators')
            /\ ScopePart(ret'.d, "Sample")
                    = ComputeAll(sample_calculators', arg'.items[Len(arg'.items)])]_vars

\* update_and_get_all has returned for a stream of two samples whose sample
\* measures differ
C7_Witness ==
    /\ last_op = "update_and_get_all"
    /\ err = "none"
    /\ Len(arg.items) = 2
    /\ sample_calculators # <<>>
    /\ dataset_calculators # <<>>
    /\ ComputeAll(sample_calculators, arg.items[1]) # ComputeAll(sample_calculators, arg.items[2])
    /\ DOMAIN ScopePart(ret.d, "Dataset") # {}

\* C8: update_and_get_all of a stream that yields no sample raises ValueError
\* and returns nothing; update of the same stream returns normally.
C8_EmptyStreamIsInputError ==
    /\ (last_op = "update_and_get_all" /\ arg.items = <<>>) =>
            err = "ValueError" /\ ret = NoneDict
    /\ (last_op = "update" /\ arg.items = <<>>) => err = "none"

\* update_and_get_all was called with an empty stream and raised
C8_Witness ==
    /\ last_op = "update_and_get_all"
    /\ arg = Iterable(<<>>)
    /\ err = "ValueError"
    /\ sample_calculators # <<>>

\* C9: skip_update_and_get_all changes neither a dataset calculator nor
\* sample_count; the sample part of what it returns is the compute of its own
\* sample, and the dataset part is the one the skip_update_and_get_all call
\* before it returned.
C9_SkipLeavesAccumulators ==
    [][last_op' = "skip_update_and_get_all" =>
            /\ dataset_calculators' = dataset_calculators
            /\ sample_count' = sample_count
            /\ fed_count' = fed_count
            /\ err' = "none" =>
                /\ ScopePart(ret'.d, "Sample") = ComputeAll(sample_calculators, arg'.items[1])
                /\ ScopePart(ret'.d, "Dataset") = current_dataset_measures'.d
            /\ (last_op = "skip_update_and_get_all" /\ err = "none" /\ err' = "none") =>
                ScopePart(ret'.d, "Dataset") = ScopePart(ret.d, "Dataset")]_vars

\* skip_update_and_get_all has returned sample and dataset measures after an update
C9_Witness ==
    /\ last_op = "skip_update_and_get_all"
    /\ err = "none"
    /\ sample_count > 0
    /\ fed_count > 0
    /\ DOMAIN ScopePart(ret.d, "Sample") # {}
    /\ DOMAIN ScopePart(ret.d, "Dataset") # {}

\* C10: constructed with a snapshot that holds every requested dataset
\* measure, the StatsCalculator starts with it as its cache
\* (has_dataset_measures is true), and finalize() before any update returns
\* exactly the snapshot and calls finalize on no dataset calculator.
C10_CompleteSnapshotSeedsCache ==
    (constructed /\ SnapshotComplete /\ sample_count = 0) =>
        /\ has_dataset_measures(Self)
        /\ current_dataset_measures = initial_dataset_measures
        /\ last_op = "finalize" =>
            /\ ret = initial_dataset_measures
            /\ calc_finalize_calls = 0

\* finalize() has returned on a StatsCalculator built with a complete
\* snapshot that holds one more measure than was requested
C10_Witness ==
    /\ constructed
    /\ SnapshotComplete
    /\ sample_count = 0
    /\ last_op = "finalize"
    /\ dataset_calculators # <<>>
    /\ DatasetStd("b", "x") \in DOMAIN ret.d

\* C11: constructed with a snapshot that lacks a requested dataset measure,
\* the StatsCalculator is built without error, __init__ warns, no cached
\* result exists after construction (has_dataset_measures is false), and no
\* cached or finalized result ever holds a value of the snapshot; the first
\* finalize() returns the merge of the dataset calculators' results.
C11_PartialSnapshotDiscarded ==
    (constructed /\ SnapshotPartial) =>
        /\ init_warnings # <<>>
        /\ last_op = "__init__" => (err = "none" /\ ~has_dataset_measures(Self))
        /\ has_dataset_measures(Self) => NoSnapshotValue(current_dataset_measures.d)
        /\ ret.some => NoSnapshotValue(ret.d)
        /\ (last_op = "finalize" /\ sample_count = 0) =>
                ret = SomeDict(FinalizeAll(dataset_calculators))

\* finalize() has returned values of updated dataset calculators on a
\* StatsCalculator built with a snapshot that lacks a requested measure
C11_Witness ==
    /\ constructed
    /\ SnapshotPartial
    /\ DOMAIN initial_dataset_measures.d # {}
    /\ last_op = "finalize"
    /\ fed_count > 0
    /\ DOMAIN ret.d # {}

\* C12 as claimed: constructed with a complete snapshot, no dataset calculator
\* is ever updated and finalize() returns the snapshot, whatever calls were
\* made. The code's _update updates the calculators and drops the cache.
C12_SnapshotShortCircuits ==
    (constructed /\ SnapshotComplete) =>
        /\ NoneUpdated(dataset_calculators)
        /\ last_op = "finalize" => ret = initial_dataset_measures

\* C12 amended: constructed with a complete snapshot and before the first
\* update or update_and_get_all call, finalize() and skip_update_and_get_all
\* update and finalize no dataset calculator, keep the snapshot cached and
\* return its values; the first update or update_and_get_all call that
\* returns normally applies its samples to every dataset calculator, and
\* leaves no cached result (update) or the calculators' results (update_and_get_all).
C12_SnapshotHeldUntilUpdate ==
    [][(constructed /\ SnapshotComplete /\ sample_count = 0) =>
            /\ last_op' \in {"finalize", "skip_update_and_get_all"} =>
                /\ NoneUpdated(dataset_calculators')
                /\ current_dataset_measures' = initial_dataset_measures
                /\ calc_finalize_calls' = 0
                /\ err' = "none" =>
                        ScopePart(ret'.d, "Dataset") = initial_dataset_measures.d
            /\ (last_op' \in {"update", "update_and_get_all"} /\ err' = "none") =>
                /\ dataset_calculators' = ApplyAll(dataset_calculators, arg'.items)
                /\ last_op' = "update" => ~has_dataset_measures(Self')
                /\ last_op' = "update_and_get_all" =>
                        current_dataset_measures' = SomeDict(FinalizeAll(dataset_calculators'))]_vars

\* an update_and_get_all has replaced a complete snapshot by the results of
\* the updated dataset calculators
C12_Witness ==
    /\ constructed
    /\ SnapshotComplete
    /\ last_op = "update_and_get_all"
    /\ err = "none"
    /\ sample_count = 1
    /\ ~NoneUpdated(dataset_calculators)
    /\ current_dataset_measures # initial_dataset_measures

\* C13: an update or update_and_get_all call that fails leaves every dataset
\* calculator updated with exactly the samples the call applied to all of
\* them: no calculator holds the sample at which the call failed. The code
\* updates the calculators one after the other and does not undo the updates
\* made before the one that raised: TLC refutes this.
C13_UpdateAllOrNothing ==
    [][(last_op' \in {"update", "update_and_get_all"} /\ err' = "KeyError") =>
            dataset_calculators'
                = ApplyAll(dataset_calculators,
                           SubSeq(arg'.items, 1, fed_count' - fed_count))]_vars

\* C20: a cached result exists only if an update call was made since
\* construction or a complete snapshot was given. The code's finalize() caches
\* the (empty) merge of the calculators' results on a StatsCalculator that
\* saw no sample: TLC refutes this.
C20_CacheOnlyAfterUpdateOrSnapshot ==
    (constructed /\ has_dataset_measures(Self)) => (sample_count > 0 \/ SnapshotComplete)

----------------------------------------------------------------------------
(* Vocabulary of the properties of one calculator *)

\* the elements of a tensor that one output cell reduces away
ReducedAway(t, axes) == TensorSize(t) \div Len(ReductionGroups(t, axes))

\* cell by cell, the elements of front followed by those of last
JoinGroups(front, last) == [i \in 1..Len(front) |-> front[i] \o last[i]]

RECURSIVE Joined(_, _)
\* the tensors of ts as one batch: every output cell's elements of all of them
Joined(ts, axes) ==
    IF Len(ts) = 1 THEN ReductionGroups(ts[1], axes)
    ELSE JoinGroups(Joined(SubSeq(ts, 1, Len(ts) - 1), axes), ReductionGroups(ts[Len(ts)], axes))

RECURSIVE SumReducedAway(_, _)
SumReducedAway(ts, axes) ==
    IF ts = <<>> THEN 0 ELSE ReducedAway(Head(ts), axes) + SumReducedAway(Tail(ts), axes)

RECURSIVE WeightedMeans(_, _, _)
\* the sum over the tensors of ts of count * mean, for output cell i
WeightedMeans(ts, axes, i) ==
    IF ts = <<>> THEN <<0, 1>>
    ELSE RAdd(RScale(ReducedAway(Head(ts), axes), TensorMean(Head(ts), axes)[i]),
              WeightedMeans(Tail(ts), axes, i))

\* cells divided by the integer k
CellsDivInt(cells, k) == [i \in 1..Len(cells) |-> RDivInt(cells[i], k)]

\* no cell is negative
NonNegative(cells) == \A i \in 1..Len(cells) : cells[i][1] >= 0

\* the calculator of acc's class and arguments as constructed
Fresh(c) ==
    IF c.cls = "MeanCalculator" THEN MeanCalculator(c.tensor_id, c.axes)
    ELSE MeanVarStdCalculator(c.tensor_id, c.axes)

RECURSIVE Fed(_, _)
\* the calculator c after update calls with the tensors of ts, in order
Fed(c, ts) ==
    IF ts = <<>> THEN c ELSE Fed(calc_update(c, SampleOf(Head(ts))), Tail(ts))

\* [A, B, C] as [C, A, B], and with its last two tensors exchanged
Rotated(ts) == <<ts[Len(ts)]>> \o SubSeq(ts, 1, Len(ts) - 1)
LastTwoSwapped(ts) ==
    IF Len(ts) < 2 THEN ts
    ELSE SubSeq(ts, 1, Len(ts) - 2) \o <<ts[Len(ts)], ts[Len(ts) - 1]>>

\* two calculators finalize alike
SameResult(c, d) == c.n = d.n /\ calc_finalize(c) = calc_finalize(d)

----------------------------------------------------------------------------
(* Properties of one calculator, under SpecCalc *)

\* C14: after one or more MeanCalculator.update calls, n is the sum over the
\* batches of the element count each output cell reduced away, the mean is
\* the average of the batch means weighted by these counts, and it is the
\* mean of the batches' elements given as one batch; all-ones tensors of
\* shapes (2,2), (3,3), (1,1) with axes=None give n = 14 and finalize to
\* DatasetMean 1.
C14_MeanIsCountWeighted ==
    (acc.cls = "MeanCalculator" /\ acc_fed # <<>>) =>
        /\ acc.n = SumReducedAway(acc_fed, acc.axes)
        /\ \A i \in 1..Len(acc.mean) :
                RScale(acc.n, acc.mean[i]) = WeightedMeans(acc_fed, acc.axes, i)
        /\ acc.mean = TensorMean(Joined(acc_fed, acc.axes), acc.axes)
        /\ (acc_fed = <<Ones(2), Ones(3), Ones(1)>> /\ acc.axes = "None") =>
                /\ acc.n = 14
                /\ acc.mean = << <<1, 1>> >>
                /\ acc_op = "finalize" =>
                        acc_ret = (DatasetMean("a", "None") :> Plain(<< <<1, 1>> >>))

\* the all-ones tensors of shapes (2,2), (3,3), (1,1) were fed and finalized
C14_Witness ==
    /\ acc.cls = "MeanCalculator"
    /\ acc.axes = "None"
    /\ acc_fed = <<Ones(2), Ones(3), Ones(1)>>
    /\ acc_op = "finalize"
    /\ acc.n = 14

\* C15: after one or more MeanVarStdCalculator.update calls, (n, mean, m2) is
\* the count, the mean and the sum of squared deviations from that mean of
\* all elements fed so far, and finalize() returns the variance m2 / n of
\* these elements; [1,2,3,4] then [5,6,7,8] with axes=None give n = 8, mean
\* 4.5 and variance 5.25.
C15_MomentsOfUnion ==
    (acc.cls = "MeanVarStdCalculator" /\ acc_fed # <<>>) =>
        /\ acc.n = Len(Joined(acc_fed, acc.axes)[1])
        /\ acc.mean = TensorMean(Joined(acc_fed, acc.axes), acc.axes)
        /\ acc.m2 = SumSquaredDeviations(Joined(acc_fed, acc.axes), acc.axes, acc.mean)
        /\ acc_op = "finalize" =>
                acc_ret[DatasetVar("a", acc.axes)] = Plain(CellsDivInt(acc.m2, acc.n))
        /\ (acc_fed = << << <<1, 2, 3, 4>> >>, << <<5, 6, 7, 8>> >> >> /\ acc.axes = "None") =>
                /\ acc.n = 8
                /\ acc.mean = << <<9, 2>> >>
                /\ acc_op = "finalize" =>
                        acc_ret[DatasetVar("a", "None")] = Plain(<< <<21, 4>> >>)

\* [1,2,3,4] then [5,6,7,8] were fed and finalized
C15_Witness ==
    /\ acc.cls = "MeanVarStdCalculator"
    /\ acc.axes = "None"
    /\ acc_fed = << << <<1, 2, 3, 4>> >>, << <<5, 6, 7, 8>> >> >>
    /\ acc_op = "finalize"
    /\ acc_ret[DatasetVar("a", "None")] = Plain(<< <<21, 4>> >>)

\* C16: the running m2 of a MeanVarStdCalculator is never negative, and no
\* variance that compute or finalize returns is negative.
C16_VarianceNonNegative ==
    acc.cls = "MeanVarStdCalculator" =>
        /\ NonNegative(acc.m2)
        /\ \A m \in DOMAIN acc_ret : m.kind \in {"Var", "Std"} => NonNegative(acc_ret[m].v)

\* finalize() has returned a positive variance after updates with tensors of
\* different means
C16_Witness ==
    /\ acc.cls = "MeanVarStdCalculator"
    /\ Len(acc_fed) >= 2
    /\ TensorMean(acc_fed[1], acc.axes) # TensorMean(acc_fed[2], acc.axes)
    /\ acc_op = "finalize"
    /\ acc_ret[DatasetVar("a", acc.axes)].v[1][1] > 0

\* C17: a MeanCalculator or MeanVarStdCalculator fed the batches [A, B, C]
\* holds the n and finalizes to the mean and variance of one fed [C, A, B],
\* and of one fed [A, C, B].
C17_OrderIndependent ==
    (acc.cls \in {"MeanCalculator", "MeanVarStdCalculator"} /\ acc_fed # <<>>) =>
        /\ SameResult(acc, Fed(Fresh(acc), Rotated(acc_fed)))
        /\ SameResult(acc, Fed(Fresh(acc), LastTwoSwapped(acc_fed)))

\* three tensors of different counts and means were fed
C17_Witness ==
    /\ acc.cls = "MeanVarStdCalculator"
    /\ acc.axes = "None"
    /\ acc_fed = << S2.a, Ones(3), << <<5, 6, 7, 8>> >> >>
    /\ acc_op = "update"

\* C18 as claimed: every finalize() call of a MeanPercentilesCalculator emits
\* the warning. The code's finalize() returns {} without a warning when no
\* update was made.
C18_EveryFinalizeWarns ==
    (acc.cls = "MeanPercentilesCalculator" /\ acc_op = "finalize") => acc_warnings # <<>>

\* C18 amended: a finalize() call of a MeanPercentilesCalculator made after
\* one or more updates emits the warning and returns the mapping of every
\* requested rank to its estimate; a finalize() call made before any update
\* returns the empty mapping and emits no warning.
C18_FinalizeWarnsOnceObserved ==
    (acc.cls = "MeanPercentilesCalculator" /\ acc_op = "finalize") =>
        IF acc_fed = <<>>
        THEN acc_warnings = <<>> /\ acc_ret = EmptyDict
        ELSE /\ Len(acc_warnings) = 1
             /\ DOMAIN acc_ret = { DatasetPercentile("a", acc.axes, n) : n \in acc.ns }
             /\ \A m \in DOMAIN acc_ret : acc_ret[m] = Plain(acc.estimates[m.n])

\* finalize() has warned and returned the estimates of two updates
C18_Witness ==
    /\ acc.cls = "MeanPercentilesCalculator"
    /\ acc_op = "finalize"
    /\ Len(acc_fed) = 2
    /\ acc_warnings # <<>>
    /\ DOMAIN acc_ret # {}

\* C19: after one or more CrickPercentilesCalculator.update calls, every
\* output cell's digest has received the elements of that cell's reduction
\* group of every sample. The code iterates self._indices, an iterator made
\* once by _initialize and used up by the first update: TLC refutes this.
C19_EveryUpdateFeedsSketches ==
    (acc.cls = "CrickPercentilesCalculator" /\ acc_fed # <<>>) =>
        acc.digest = Joined(acc_fed, acc.axes)

----------------------------------------------------------------------------
(* Properties of the module-level functions, under SpecCompute *)

\* a function result and the outcome of a StatsCalculator call agree
Agree(r, out) == r.err = out.err /\ r.ret = out.ret

\* a fresh StatsCalculator(ms).update_and_get_all(dataset)
FreshUpdateAndGetAll(ms, dataset) ==
    StatsCalculator_update_and_get_all(StatsCalculator_init(ms, NoneDict), Iterable(dataset))

\* C22: compute_dataset_measures called with measures for which the planner
\* builds a sample calculator raises AssertionError, has taken no sample from
\* its dataset and returns nothing; compute_sample_measures called with
\* measures for which the planner builds a dataset calculator does likewise.
C22_WrongScopeIsContractError ==
    /\ (/\ fn = "compute_dataset_measures"
        /\ get_measure_calculators(fn_measures).sample # <<>>) =>
            fn_result = Result(NoneDict, "AssertionError", 0)
    /\ (/\ fn = "compute_sample_measures"
        /\ get_measure_calculators(fn_measures).dataset # <<>>) =>
            fn_result = Result(NoneDict, "AssertionError", 0)

\* compute_dataset_measures was called with a dataset measure, a sample
\* measure and a dataset of samples
C22_Witness ==
    /\ fn = "compute_dataset_measures"
    /\ fn_measures = << DatasetMean("a", "None"), SampleMean("a", "None") >>
    /\ Len(fn_dataset) = 2
    /\ fn_result.err = "AssertionError"

\* C25: compute_measures(measures, dataset) and update_and_get_all(dataset)
\* of a StatsCalculator(measures) just constructed raise the same exception
\* or return the same mapping; on an empty dataset both raise ValueError.
C25_ComputeMeasuresIsUpdateAndGetAll ==
    fn = "compute_measures" =>
        /\ Agree(fn_result, FreshUpdateAndGetAll(fn_measures, fn_dataset))
        /\ fn_dataset = <<>> => fn_result.err = "ValueError"

\* compute_measures has returned dataset and sample measures for a dataset
\* of two samples whose sample measures differ
C25_Witness ==
    /\ fn = "compute_measures"
    /\ fn_measures = << DatasetMean("a", "None"), SampleMean("a", "None") >>
    /\ fn_dataset = <<S1, S2>>
    /\ fn_result.err = "none"
    /\ Cardinality(DOMAIN fn_result.ret.d) = 2

----------------------------------------------------------------------------
(* Properties of the steps of update, under SpecUpdate *)

\* the k-th calc.update(s) call when every sample is applied to each of n
\* calculators before the next sample is applied to any
CallInOrder(k, n) == <<((k - 1) \div n) + 1, ((k - 1) % n) + 1>>

\* every calculator has received every sample of the stream
AllApplied == Len(upd_calls) = Len(arg.items) * Len(dataset_calculators)

\* C21: during update(s1..sk) the calc.update calls are made sample by
\* sample in arrival order, every dataset calculator receiving s_i before any
\* receives s_(i+1), and none receiving a sample twice; the cached result is
\* left as it is until every calculator has received every sample, and no
\* cached result is left when the call returns.
C21_SamplesAppliedInOrder ==
    [][/\ \A k \in 1..Len(upd_calls') :
            upd_calls'[k] = CallInOrder(k, Len(dataset_calculators))
       /\ (InUpdate /\ current_dataset_measures' # current_dataset_measures) => AllApplied
       /\ (InUpdate /\ upd_pc' = "returned") =>
            /\ AllApplied'
            /\ ~has_dataset_measures(Self')]_vars

\* an update of two samples has returned on a StatsCalculator with several
\* dataset calculators that held a cached result when the call began
C21_Witness ==
    /\ upd_pc = "returned"
    /\ Len(arg.items) = 2
    /\ Len(dataset_calculators) >= 2
    /\ Len(upd_calls) = 2 * Len(dataset_calculators)
    /\ SnapshotComplete
    /\ sample_count = 1

----------------------------------------------------------------------------
(* Further properties of the StatsCalculator, under Spec *)

\* the measures of a scope the StatsCalculator was constructed with
RequestedOf(scope) == { m \in { measures[i] : i \in 1..Len(measures) } : m.scope = scope }

\* the dicts of a sequence agree on every key two of them share
Consistent(ds) ==
    \A i, j \in 1..Len(ds) : \A k \in (DOMAIN ds[i]) \cap (DOMAIN ds[j]) : ds[i][k] = ds[j][k]

\* calc.finalize() of every calculator of a list
FinalizeEach(calcs) == [i \in 1..Len(calcs) |-> calc_finalize(calcs[i])]

\* calc.compute(sample) of every calculator of a list
ComputeEach(calcs, sample) == [i \in 1..Len(calcs) |-> calc_compute(calcs[i], sample)]

\* C23: a cached result that is not the initial snapshot is the merge of
\* finalize() of the dataset calculators as they are. The code keeps the cache
\* of before an update that raised, while the calculators hold the samples
\* applied before the exception (see C13): TLC refutes this.
C23_CacheIsFinalizeOfCalculators ==
    (/\ constructed
     /\ has_dataset_measures(Self)
     /\ current_dataset_measures # initial_dataset_measures) =>
        current_dataset_measures.d = FinalizeAll(dataset_calculators)

\* C24: an update_and_get_all call that raises ValueError for an empty stream
\* leaves sample_count and the cached result as they were. The code's _update
\* has incremented sample_count and dropped the cache before the test of
\* line 425: TLC refutes this.
C24_EmptyStreamLeavesState ==
    [][(last_op' = "update_and_get_all" /\ err' = "ValueError") =>
            /\ sample_count' = sample_count
            /\ current_dataset_measures' = current_dataset_measures]_vars

\* C26: on a StatsCalculator built without a snapshot and after a sample was
\* applied to every dataset calculator, finalize() returns a value for every
\* requested dataset measure, and update_and_get_all and
\* skip_update_and_get_all return one for every requested sample measure. The
\* code's finalize() returns the cache of before an update that raised (see
\* C23), which may be the empty cache of a finalize() before any update (see
\* C20): TLC refutes this.
C26_EveryRequestedMeasureServed ==
    (constructed /\ ~initial_dataset_measures.some /\ fed_count > 0 /\ err = "none") =>
        /\ last_op = "finalize" => RequestedOf("Dataset") \subseteq DOMAIN ret.d
        /\ last_op \in {"update_and_get_all", "skip_update_and_get_all"} =>
                RequestedOf("Sample") \subseteq DOMAIN ret.d

\* C27: the finalize() results of the dataset calculators agree on every key
\* two of them share, and so do the compute results of the sample calculators
\* for every sample that holds their tensors. The planner builds one
\* MeanVarStdCalculator per entry of a set (see C1) and an update that raises
\* has updated the calculators before the raising one only (see C13): under a
\* hash order that puts a calculator of another tensor between two of one
\* pair, TLC refutes this.
C27_SharedKeysAgree ==
    constructed =>
        /\ Consistent(FinalizeEach(dataset_calculators))
        /\ \A sample \in Samples :
                (\A i \in 1..Len(sample_calculators) :
                    ~RaisesKeyError(sample_calculators[i], sample)) =>
                        Consistent(ComputeEach(sample_calculators, sample))

====
